---- MODULE Spec2Model ----
(***************************************************************************)
(* Model of the CSP solver (csp_problems/csp.py) and of the game-tree      *)
(* searches (adversarial_search/halving_game.py, tic_tac_toe.py).          *)
(***************************************************************************)
EXTENDS Integers, Sequences, FiniteSets, TLC

(* ------------------------------ bounds --------------------------------- *)
MaxVal == 2
MaxEdges == 2
MaxCalls == 2

\* the variable names an instance is built from (an instance declares the
\* first n of them, in this order), the values of its domains
VarNames == <<"X1", "X2", "X3">>
Values == 1..MaxVal

VARIABLES
    variables,           \* self.variables: the declared variable list
    domains,             \* self.domains: variable -> set of values
    binary_constraints,  \* self.binary_constraints: (v1, v2) -> set of value pairs
    backtrack_counter,   \* self.backtrack_counter
    fail_counter,        \* self.fail_counter
    call,                \* the method called last on the instance
    ret,                 \* what that call returned
    before,              \* the instance's fields when that call was entered
    prev,                \* the call made just before the last one: call, ret, domains at entry
    calls,               \* number of calls made so far
    alldiff_variables,   \* alldiff: the list passed in
    alldiff_ret,         \* alldiff: the list returned, None before the call
    hg_N,                \* halving game: game.N
    hg_state,            \* halving game: the driver's state, (player, number)
    hg_player,           \* halving game: the global player
    hg_trace,            \* halving game: the actions the driver has printed
    ttt_state,           \* tic-tac-toe: the current state, (player, board)
    ttt_player,          \* tic-tac-toe: the global player
    ttt_driven,          \* tic-tac-toe: every move so far was alpha_beta_search's
    pc,                  \* step by step: where the running call is
    ac_queue,            \* ac_3: its local queue
    ac_iterations,       \* ac_3: iterations of the while loop so far
    ac_requeues,         \* ac_3: iterations so far that put arcs back
    ac_fifo,             \* ac_3: every arc so far was taken from the head of the queue
    bt_assignment,       \* backtrack: the dict shared by the invocations
    bt_stack,            \* backtrack: the invocations not yet returned
    bt_order,            \* backtrack: the order in which a set of values is iterated
    bt_event             \* backtrack: the last entry to or exit from an invocation

cspVars == <<variables, domains, binary_constraints, backtrack_counter,
             fail_counter, call, ret, before, prev, calls>>
alldiffVars == <<alldiff_variables, alldiff_ret>>
hgVars == <<hg_N, hg_state, hg_player, hg_trace>>
tttVars == <<ttt_state, ttt_player, ttt_driven>>

stepVars == <<pc, ac_queue, ac_iterations, ac_requeues, ac_fifo,
              bt_assignment, bt_stack, bt_order, bt_event>>

vars == <<cspVars, alldiffVars, hgVars, tttVars, stepVars>>

(* ------------------------------ helpers -------------------------------- *)
Range(s) == {s[i] : i \in DOMAIN s}

Perms(S) == {p \in [1..Cardinality(S) -> S] : Range(p) = S}

\* Python's None, a returned bool, a returned dict
None == [kind |-> "None"]
Bool(b) == [kind |-> "bool", val |-> b]
Dict(d) == [kind |-> "dict", val |-> d]

\* the empty dict {}
EmptyDict == [v \in {} |-> 0]

\* the parts of the state a program does not use
CSPUnused ==
    /\ variables = <<>> /\ domains = <<>> /\ binary_constraints = <<>>
    /\ backtrack_counter = 0 /\ fail_counter = 0
    /\ call = "none" /\ ret = None /\ before = None /\ prev = None /\ calls = 0
AlldiffUnused == alldiff_variables = <<>> /\ alldiff_ret = None
HGUnused == hg_N = 0 /\ hg_state = <<0, 0>> /\ hg_player = 0 /\ hg_trace = <<>>
TTTUnused == ttt_state = <<>> /\ ttt_player = 0 /\ ttt_driven = FALSE
StepUnused ==
    /\ pc = "none" /\ ac_queue = <<>> /\ ac_iterations = 0 /\ ac_requeues = 0
    /\ ac_fifo = TRUE
    /\ bt_assignment = <<>> /\ bt_stack = <<>> /\ bt_order = <<>> /\ bt_event = None

(* --------------------------- CSP.__init__ ------------------------------ *)
\* binary_constraints as built by the constructor from the edge list
CSP_init_constraints(doms, edges) ==
    [e \in edges |->
        UNION {{<<value1, value2>>, <<value2, value1>>} :
                 <<value1, value2>> \in
                    {p \in doms[e[1]] \X doms[e[2]] : p[1] # p[2]}}]

(* ------------------------------ revise --------------------------------- *)
\* self.binary_constraints.get((Xi, Xj), set())
constraint_get(Xi, Xj) ==
    IF <<Xi, Xj>> \in DOMAIN binary_constraints
    THEN binary_constraints[<<Xi, Xj>>]
    ELSE {}

\* revise keeping x only when every y of domain(Xj) is allowed with it
RECURSIVE revise_loop_all(_, _, _, _)
revise_loop_all(doms, todo, Xi, Xj) ==
    IF todo = {} THEN doms
    ELSE LET x == CHOOSE v \in todo : \A w \in todo : v <= w
             supported == \A y \in doms[Xj] : <<x, y>> \in constraint_get(Xi, Xj)
             nd == IF supported THEN doms
                   ELSE [doms EXCEPT ![Xi] = @ \ {x}]
         IN  revise_loop_all(nd, todo \ {x}, Xi, Xj)

\* the loop of revise over a copy of domain(Xi); todo are the values of the
\* copy not yet visited, doms the domains as mutated so far
RECURSIVE revise_loop(_, _, _, _)
revise_loop(doms, todo, Xi, Xj) ==
    IF todo = {} THEN doms
    ELSE LET x == CHOOSE v \in todo : \A w \in todo : v <= w
             supported == \E y \in doms[Xj] : <<x, y>> \in constraint_get(Xi, Xj)
             nd == IF supported THEN doms
                   ELSE [doms EXCEPT ![Xi] = @ \ {x}]
         IN  revise_loop(nd, todo \ {x}, Xi, Xj)

\* a revision that reports a change whether or not it removed a value
revise_always(doms, Xi, Xj) ==
    [domains |-> revise_loop(doms, doms[Xi], Xi, Xj), revised |-> TRUE]

\* revise(Xi, Xj): the domains after the call and the returned flag
revise(doms, Xi, Xj) ==
    LET nd == revise_loop(doms, doms[Xi], Xi, Xj)
    IN  [domains |-> nd, revised |-> nd # doms]

(* ------------------------------- ac_3 ---------------------------------- *)
\* the queue after the initialisation loops of ac_3
ac_3_queue ==
    LET n == Len(variables)
        pairs == [k \in 1..(n * n) |->
                    <<variables[((k - 1) \div n) + 1], variables[((k - 1) % n) + 1]>>]
    IN  SelectSeq(pairs, LAMBDA p : p \in DOMAIN binary_constraints)

\* the arcs put back taken in the wrong direction, (Xi, Xk)
ac_3_requeue_outgoing(Xi, Xj) ==
    LET cand == [k \in 1..Len(variables) |-> <<Xi, variables[k]>>]
    IN  SelectSeq(cand, LAMBDA p : p[2] # Xj /\ p \in DOMAIN binary_constraints)

\* the arcs (Xk, Xi) put back after a revision of Xi against Xj
ac_3_requeue(Xi, Xj) ==
    LET cand == [k \in 1..Len(variables) |-> <<variables[k], Xi>>]
    IN  SelectSeq(cand, LAMBDA p : p[1] # Xj /\ p \in DOMAIN binary_constraints)

\* the emptiness test applied to the dict instead of to the domain of Xi
domain_is_empty_dict(doms, Xi) == Cardinality(DOMAIN doms) = 0

\* len(self.domains[Xi]) == 0
domain_is_empty(doms, Xi) == Cardinality(doms[Xi]) = 0

\* the while loop of ac_3
RECURSIVE ac_3_loop(_, _)
ac_3_loop(queue, doms) ==
    IF queue = <<>> THEN [ret |-> TRUE, domains |-> doms]
    ELSE LET Xi == Head(queue)[1]
             Xj == Head(queue)[2]
             r == revise(doms, Xi, Xj)
         IN  IF r.revised
             THEN IF domain_is_empty(r.domains, Xi)
                  THEN [ret |-> FALSE, domains |-> r.domains]
                  ELSE ac_3_loop(Tail(queue) \o ac_3_requeue(Xi, Xj), r.domains)
             ELSE ac_3_loop(Tail(queue), r.domains)

(* ------------------------ backtracking_search -------------------------- *)
is_complete(assignment) ==
    \A i \in 1..Len(variables) : variables[i] \in DOMAIN assignment

select_unassigned_variable(assignment) ==
    LET i == CHOOSE k \in 1..Len(variables) :
                /\ variables[k] \notin DOMAIN assignment
                /\ \A j \in 1..(k - 1) : variables[j] \in DOMAIN assignment
    IN  variables[i]

\* the domain of var in the order the set is iterated; a set has no order of
\* its own, so the iteration order is the parameter order
order_domain_values(var, order) ==
    SelectSeq(order, LAMBDA v : v \in domains[var])

\* the consistency test looking up only the key (var, neighbor)
is_consistent_one_key(value, var, assignment) ==
    \A i \in 1..Len(variables) :
        LET neighbor == variables[i] IN
        neighbor \in DOMAIN assignment =>
            LET neighbor_value == assignment[neighbor] IN
            ~ /\ <<var, neighbor>> \in DOMAIN binary_constraints
              /\ <<value, neighbor_value>> \notin binary_constraints[<<var, neighbor>>]

is_consistent(value, var, assignment) ==
    \A i \in 1..Len(variables) :
        LET neighbor == variables[i] IN
        neighbor \in DOMAIN assignment =>
            LET neighbor_value == assignment[neighbor] IN
            ~ \/ /\ <<var, neighbor>> \in DOMAIN binary_constraints
                 /\ <<value, neighbor_value>> \notin binary_constraints[<<var, neighbor>>]
              \/ /\ <<neighbor, var>> \in DOMAIN binary_constraints
                 /\ <<neighbor_value, value>> \notin binary_constraints[<<neighbor, var>>]

\* backtrack(assignment) with the counters threaded through; the result
\* carries the dict as the call left it
RECURSIVE backtrack(_, _, _, _), backtrack_values(_, _, _, _, _, _)

\* the for loop returning the result of the first recursive call, found or not
RECURSIVE backtrack_values_first(_, _, _, _, _, _)
backtrack_values_first(var, vals, assignment, bc, fc, order) ==
    IF vals = <<>>
    THEN [found |-> FALSE, assignment |-> assignment,
          backtrack_counter |-> bc, fail_counter |-> fc + 1]
    ELSE LET value == Head(vals) IN
         IF is_consistent(value, var, assignment)
         THEN backtrack((var :> value) @@ assignment, bc, fc, order)
         ELSE backtrack_values_first(var, Tail(vals), assignment, bc, fc, order)

backtrack(assignment, bc, fc, order) ==
    IF is_complete(assignment)
    THEN [found |-> TRUE, assignment |-> assignment,
          backtrack_counter |-> bc + 1, fail_counter |-> fc]
    ELSE LET var == select_unassigned_variable(assignment)
         IN  backtrack_values(var, order_domain_values(var, order),
                              assignment, bc + 1, fc, order)

\* the for loop over the values of var
backtrack_values(var, vals, assignment, bc, fc, order) ==
    IF vals = <<>>
    THEN [found |-> FALSE, assignment |-> assignment,
          backtrack_counter |-> bc, fail_counter |-> fc + 1]
    ELSE LET value == Head(vals) IN
         IF is_consistent(value, var, assignment)
         THEN LET r == backtrack((var :> value) @@ assignment, bc, fc, order)
              IN  IF r.found THEN r
                  ELSE backtrack_values(var, Tail(vals),
                          [v \in (DOMAIN r.assignment) \ {var} |-> r.assignment[v]],
                          r.backtrack_counter, r.fail_counter, order)
         ELSE backtrack_values(var, Tail(vals), assignment, bc, fc, order)

(* ------------------------------ actions -------------------------------- *)
Fields == [domains |-> domains, binary_constraints |-> binary_constraints,
           backtrack_counter |-> backtrack_counter, fail_counter |-> fail_counter]

\* the edge lists over the first n names: pairs of distinct variables
EdgeLists(n) ==
    {E \in SUBSET ({VarNames[i] : i \in 1..n} \X {VarNames[i] : i \in 1..n}) :
        /\ Cardinality(E) <= MaxEdges
        /\ \A e \in E : e[1] # e[2]}

Init ==
    \E n \in 1..Len(VarNames) :
    \E doms \in [{VarNames[i] : i \in 1..n} -> SUBSET Values] :
    \E edges \in EdgeLists(n) :
        /\ variables = SubSeq(VarNames, 1, n)
        /\ domains = doms
        /\ binary_constraints = CSP_init_constraints(doms, edges)
        /\ backtrack_counter = 0
        /\ fail_counter = 0
        /\ call = "none"
        /\ ret = None
        /\ before = [domains |-> doms,
                     binary_constraints |-> CSP_init_constraints(doms, edges),
                     backtrack_counter |-> 0, fail_counter |-> 0]
        /\ prev = [call |-> "none", ret |-> None, domains |-> doms]
        /\ calls = 0
        /\ AlldiffUnused /\ HGUnused /\ TTTUnused /\ StepUnused

ac_3 ==
    /\ calls < MaxCalls
    /\ LET r == ac_3_loop(ac_3_queue, domains)
       IN  /\ domains' = r.domains
           /\ ret' = Bool(r.ret)
    /\ call' = "ac_3"
    /\ before' = Fields
    /\ prev' = [call |-> call, ret |-> ret, domains |-> before.domains]
    /\ calls' = calls + 1
    /\ UNCHANGED <<variables, binary_constraints, backtrack_counter, fail_counter>>
    /\ UNCHANGED <<alldiffVars, hgVars, tttVars, stepVars>>

\* the search narrowing each domain to the value it assigned
backtracking_search_narrowing ==
    /\ calls < MaxCalls
    /\ \E order \in Perms(Values) :
        LET r == backtrack(EmptyDict, backtrack_counter, fail_counter, order)
        IN  /\ backtrack_counter' = r.backtrack_counter
            /\ fail_counter' = r.fail_counter
            /\ ret' = IF r.found THEN Dict(r.assignment) ELSE None
            /\ domains' = IF r.found
                          THEN [v \in DOMAIN domains |-> {r.assignment[v]}]
                          ELSE domains
    /\ call' = "backtracking_search"
    /\ before' = Fields
    /\ prev' = [call |-> call, ret |-> ret, domains |-> before.domains]
    /\ calls' = calls + 1
    /\ UNCHANGED <<variables, binary_constraints>>
    /\ UNCHANGED <<alldiffVars, hgVars, tttVars, stepVars>>

backtracking_search ==
    /\ calls < MaxCalls
    /\ \E order \in Perms(Values) :
        LET r == backtrack(EmptyDict, backtrack_counter, fail_counter, order)
        IN  /\ backtrack_counter' = r.backtrack_counter
            /\ fail_counter' = r.fail_counter
            /\ ret' = IF r.found THEN Dict(r.assignment) ELSE None
    /\ call' = "backtracking_search"
    /\ before' = Fields
    /\ prev' = [call |-> call, ret |-> ret, domains |-> before.domains]
    /\ calls' = calls + 1
    /\ UNCHANGED <<variables, domains, binary_constraints>>
    /\ UNCHANGED <<alldiffVars, hgVars, tttVars, stepVars>>

Next == ac_3 \/ backtracking_search

Spec == Init /\ [][Next]_vars

(* ------------------------- CSP: definitions ---------------------------- *)
VarSet == Range(variables)
Edges == DOMAIN binary_constraints

\* complete assignments over the domains doms that differ across every edge
Solutions(doms) ==
    {s \in [VarSet -> Values] :
        /\ \A v \in VarSet : s[v] \in doms[v]
        /\ \A e \in Edges : s[e[1]] # s[e[2]]}

NonEmpty(doms) == \A v \in VarSet : doms[v] # {}

\* every value of domain(a) has a different value in domain(b)
Supported(a, b) == \A x \in domains[a] : \E y \in domains[b] : x # y

(* --------------------------- CSP: claims ------------------------------- *)
\* C1: on an instance whose variables are distinct and whose edges join
\* distinct variables (every instance of Init), an assignment returned by
\* backtracking_search gives every variable one value of its current domain
\* and different values to the two ends of every declared edge.
C1_ReturnedAssignmentIsSolution ==
    (call = "backtracking_search" /\ ret.kind = "dict")
        => /\ DOMAIN ret.val = VarSet
           /\ ret.val \in Solutions(domains)

C1_Witness ==
    /\ call = "backtracking_search" /\ ret.kind = "dict"
    /\ prev.call = "ac_3"
    /\ Cardinality(Edges) = 2
    /\ Len(variables) = 3

\* C2: on an instance whose edges join distinct variables (every instance
\* of Init), backtracking_search returns an assignment exactly when the
\* current domains admit a solution, and a None returned on a fresh instance
\* leaves fail_counter above 0.
C2_Complete ==
    call = "backtracking_search"
        => /\ ret.kind = "dict" <=> Solutions(domains) # {}
           /\ (ret.kind = "None" /\ before.backtrack_counter = 0
                                 /\ before.fail_counter = 0) => fail_counter > 0

C2_Witness ==
    /\ call = "backtracking_search" /\ ret.kind = "None"
    /\ NonEmpty(domains)
    /\ before.backtrack_counter = 0 /\ before.fail_counter = 0
    /\ backtrack_counter > 1

\* C3: ac_3 keeps the set of solutions: the solutions over the domains after
\* the call are those over the domains before it, and a False return means
\* the instance had no solution.
C3_AC3Sound ==
    call = "ac_3"
        => /\ Solutions(domains) = Solutions(before.domains)
           /\ ret.val = FALSE => Solutions(before.domains) = {}

C3_Witness ==
    /\ call = "ac_3" /\ ret.val = TRUE
    /\ domains # before.domains
    /\ Solutions(before.domains) # {}

\* C4: when ac_3 returns True, for every declared edge every value left in
\* either end's domain has a different value left in the other end's domain.
C4_ArcConsistent ==
    (call = "ac_3" /\ ret.val = TRUE)
        => \A e \in Edges : Supported(e[1], e[2]) /\ Supported(e[2], e[1])

\* C5 (as stated): a second ac_3 right after a first leaves the domains as
\* the first left them and returns what the first returned.
C5_Idempotent ==
    (call = "ac_3" /\ prev.call = "ac_3")
        => /\ domains = before.domains
           /\ ret = prev.ret

\* C5 (amended): a second ac_3 right after a first that returned True leaves
\* the domains as the first left them and returns True.
C5_IdempotentAfterTrue ==
    (call = "ac_3" /\ prev.call = "ac_3" /\ prev.ret.val = TRUE)
        => /\ domains = before.domains
           /\ ret.val = TRUE

C5_Witness ==
    /\ call = "ac_3" /\ prev.call = "ac_3" /\ prev.ret.val = TRUE
    /\ prev.domains # before.domains
    /\ ret.val = TRUE

\* C6 (as stated): ac_3 returns False exactly when some domain is empty at
\* the moment it returns.
C6_FalseIffEmpty ==
    call = "ac_3" => (ret.val = FALSE <=> ~ NonEmpty(domains))

\* C6 (amended): ac_3 returns False only with some domain empty, and when no
\* domain was empty before the call it returns False exactly when some
\* domain is empty at the moment it returns.
C6_FalseIffBecameEmpty ==
    call = "ac_3"
        => /\ ret.val = FALSE => ~ NonEmpty(domains)
           /\ NonEmpty(before.domains) => (ret.val = FALSE <=> ~ NonEmpty(domains))

C6_Witness ==
    /\ call = "ac_3" /\ ret.val = FALSE
    /\ NonEmpty(before.domains)
    /\ ~ NonEmpty(domains)

\* C7: no call makes a domain grow, and backtracking_search leaves every
\* domain and every binary_constraints entry as it found them.
C7_DomainsNeverGrow ==
    call # "none"
        => /\ \A v \in VarSet : domains[v] \subseteq before.domains[v]
           /\ call = "backtracking_search"
                => /\ domains = before.domains
                   /\ binary_constraints = before.binary_constraints

C7_Witness ==
    /\ call = "backtracking_search" /\ prev.call = "ac_3"
    /\ prev.domains # domains
    /\ ret.kind = "dict"

(* ======================== ac_3, step by step =========================== *)
btVars == <<bt_assignment, bt_stack, bt_order, bt_event>>
BTUnused ==
    bt_assignment = <<>> /\ bt_stack = <<>> /\ bt_order = <<>> /\ bt_event = None

\* a fresh instance, no call made yet
CSPFresh(doms, edges, n) ==
    /\ variables = SubSeq(VarNames, 1, n)
    /\ domains = doms
    /\ binary_constraints = CSP_init_constraints(doms, edges)
    /\ backtrack_counter = 0
    /\ fail_counter = 0
    /\ call = "none"
    /\ ret = None
    /\ before = [domains |-> doms,
                 binary_constraints |-> CSP_init_constraints(doms, edges),
                 backtrack_counter |-> 0, fail_counter |-> 0]
    /\ prev = [call |-> "none", ret |-> None, domains |-> doms]
    /\ calls = 0

AC3Init ==
    /\ \E n \in 1..Len(VarNames) :
       \E doms \in [{VarNames[i] : i \in 1..n} -> SUBSET Values] :
       \E edges \in EdgeLists(n) : CSPFresh(doms, edges, n)
    /\ pc = "idle"
    /\ ac_queue = <<>> /\ ac_iterations = 0 /\ ac_requeues = 0 /\ ac_fifo = TRUE
    /\ BTUnused /\ AlldiffUnused /\ HGUnused /\ TTTUnused

\* entry to ac_3: the queue is filled
ac_3_begin ==
    /\ pc = "idle"
    /\ pc' = "ac_3"
    /\ ac_queue' = ac_3_queue
    /\ call' = "ac_3"
    /\ before' = Fields
    /\ prev' = [call |-> call, ret |-> ret, domains |-> before.domains]
    /\ calls' = calls + 1
    /\ UNCHANGED <<variables, domains, binary_constraints, backtrack_counter,
                   fail_counter, ret, ac_iterations, ac_requeues, ac_fifo>>
    /\ UNCHANGED <<btVars, alldiffVars, hgVars, tttVars>>

\* the queue without its i-th arc
queue_without(q, i) == SubSeq(q, 1, i - 1) \o SubSeq(q, i + 1, Len(q))

\* the queue after an iteration that forgets to put arcs back
ac_3_queue_after_dropped(q, i, revised, Xi, Xj) == queue_without(q, i)

\* the queue after an iteration on its i-th arc (Xi, Xj)
ac_3_queue_after(q, i, revised, Xi, Xj) ==
    IF revised THEN queue_without(q, i) \o ac_3_requeue(Xi, Xj)
    ELSE queue_without(q, i)

\* one iteration of the while loop on the i-th arc of the queue
ac_3_take(i) ==
    /\ pc = "ac_3"
    /\ i \in 1..Len(ac_queue)
    /\ LET Xi == ac_queue[i][1]
           Xj == ac_queue[i][2]
           r == revise(domains, Xi, Xj)
       IN  /\ domains' = r.domains
           /\ IF r.revised /\ domain_is_empty(r.domains, Xi)
              THEN /\ ret' = Bool(FALSE)
                   /\ pc' = "done"
                   /\ ac_queue' = queue_without(ac_queue, i)
                   /\ ac_requeues' = ac_requeues
              ELSE /\ ac_queue' = ac_3_queue_after(ac_queue, i, r.revised, Xi, Xj)
                   /\ ac_requeues' = IF r.revised THEN ac_requeues + 1 ELSE ac_requeues
                   /\ UNCHANGED <<ret, pc>>
    /\ ac_iterations' = ac_iterations + 1
    /\ ac_fifo' = (ac_fifo /\ i = 1)
    /\ UNCHANGED <<variables, binary_constraints, backtrack_counter,
                   fail_counter, call, before, prev, calls>>
    /\ UNCHANGED <<btVars, alldiffVars, hgVars, tttVars>>

\* an iteration as the code makes it: queue.get() takes the first arc
ac_3_iteration == ac_3_take(1)

\* an iteration on any arc of the queue
ac_3_iteration_any == \E i \in 1..Len(ac_queue) : ac_3_take(i)

\* the queue is empty: return True
ac_3_return ==
    /\ pc = "ac_3"
    /\ ac_queue = <<>>
    /\ ret' = Bool(TRUE)
    /\ pc' = "done"
    /\ UNCHANGED <<variables, domains, binary_constraints, backtrack_counter,
                   fail_counter, call, before, prev, calls,
                   ac_queue, ac_iterations, ac_requeues, ac_fifo>>
    /\ UNCHANGED <<btVars, alldiffVars, hgVars, tttVars>>

AC3Next == ac_3_begin \/ ac_3_iteration \/ ac_3_return

\* a call that has begun runs on until it returns
SpecAC3Steps == AC3Init /\ [][AC3Next]_vars /\ WF_vars(AC3Next)

AC3AnyNext == ac_3_begin \/ ac_3_iteration_any \/ ac_3_return

SpecAC3AnyOrder == AC3Init /\ [][AC3AnyNext]_vars

TotalValues(doms) ==
    LET RECURSIVE Sum(_)
        Sum(i) == IF i = 0 THEN 0
                  ELSE Cardinality(doms[variables[i]]) + Sum(i - 1)
    IN  Sum(Len(variables))

\* C13: when ac_3 starts its loop the queue holds, for every declared edge
\* between a and b, both arcs (a, b) and (b, a).
C13_BothArcsQueued ==
    (pc = "ac_3" /\ ac_iterations = 0)
        => \A e \in Edges : /\ <<e[1], e[2]>> \in Range(ac_queue)
                            /\ <<e[2], e[1]>> \in Range(ac_queue)

\* C14: on an instance with no empty domain, whatever arc of the queue each
\* iteration takes, ac_3 returns what it returns taking the first arc each
\* time, and when that is True it leaves the same domains.
C14_Confluent ==
    (pc = "done" /\ NonEmpty(before.domains))
        => LET fifo == ac_3_loop(ac_3_queue, before.domains)
           IN  /\ ret.val = fifo.ret
               /\ ret.val = TRUE => domains = fifo.domains

C14_Witness ==
    /\ pc = "done" /\ NonEmpty(before.domains)
    /\ ~ ac_fifo
    /\ ret.val = TRUE
    /\ ac_requeues > 0

\* C17: a call of ac_3 that has begun returns, True on an empty queue or
\* False; an iteration puts arcs back only when it removed a value, so the
\* iterations that did are no more than the values removed, hence no more
\* than the values of the domains at entry.
C17_Terminates ==
    /\ [](pc \in {"ac_3", "done"}
            => /\ ac_requeues <= TotalValues(before.domains) - TotalValues(domains)
               /\ ac_requeues <= TotalValues(before.domains))
    /\ (pc = "ac_3") ~> (pc = "done" /\ (ret.val = TRUE => ac_queue = <<>>))

C17_Witness ==
    /\ pc = "done"
    /\ ac_requeues > 0
    /\ ac_iterations > Cardinality(Edges)
    /\ ac_fifo

(* ================== backtracking_search, step by step ================== *)
\* a frame of bt_stack is an invocation of backtrack inside its for loop:
\* its var, the values the loop has not reached yet, and the assignment as
\* it was when the invocation was entered
Frame(var, vals, entry) == [var |-> var, vals |-> vals, entry |-> entry]

Top(stack) == stack[Len(stack)]
Pop(stack) == SubSeq(stack, 1, Len(stack) - 1)

\* pc = "call": backtrack is being invoked with bt_assignment
\* pc = "loop": the newest invocation is at the head of its for loop
\* pc = "exit_found", "exit_none": an invocation has just returned
BTInit ==
    /\ \E n \in 1..Len(VarNames) :
       \E doms \in [{VarNames[i] : i \in 1..n} -> SUBSET Values] :
       \E edges \in EdgeLists(n) : CSPFresh(doms, edges, n)
    /\ pc = "idle"
    /\ ac_queue = <<>> /\ ac_iterations = 0 /\ ac_requeues = 0 /\ ac_fifo = TRUE
    /\ BTUnused /\ AlldiffUnused /\ HGUnused /\ TTTUnused

\* return backtrack({}): the outermost invocation is made
backtracking_search_begin ==
    /\ pc = "idle"
    /\ pc' = "call"
    /\ \E order \in Perms(Values) : bt_order' = order
    /\ bt_assignment' = EmptyDict
    /\ bt_stack' = <<>>
    /\ bt_event' = None
    /\ call' = "backtracking_search"
    /\ before' = Fields
    /\ prev' = [call |-> call, ret |-> ret, domains |-> before.domains]
    /\ calls' = calls + 1
    /\ UNCHANGED <<variables, domains, binary_constraints, backtrack_counter,
                   fail_counter, ret>>
    /\ UNCHANGED <<ac_queue, ac_iterations, ac_requeues, ac_fifo,
                   alldiffVars, hgVars, tttVars>>

\* the counter counting only the invocations that go on to pick a variable
counter_at_entry_incomplete(assignment, bc) ==
    IF is_complete(assignment) THEN bc ELSE bc + 1

\* self.backtrack_counter += 1, the first statement of backtrack
counter_at_entry(assignment, bc) == bc + 1

\* entry to backtrack: count, return the assignment if it is complete,
\* otherwise select a variable and start the for loop
backtrack_enter ==
    /\ pc = "call"
    /\ backtrack_counter' = counter_at_entry(bt_assignment, backtrack_counter)
    /\ IF is_complete(bt_assignment)
       THEN /\ pc' = "exit_found"
            /\ bt_event' = [kind |-> "exit", entry |-> bt_assignment]
            /\ UNCHANGED bt_stack
       ELSE LET var == select_unassigned_variable(bt_assignment)
            IN  /\ pc' = "loop"
                /\ bt_stack' = Append(bt_stack,
                                  Frame(var, order_domain_values(var, bt_order),
                                        bt_assignment))
                /\ bt_event' = [kind |-> "entry", entry |-> bt_assignment]
    /\ UNCHANGED <<variables, domains, binary_constraints, fail_counter,
                   call, ret, before, prev, calls, bt_assignment, bt_order>>
    /\ UNCHANGED <<ac_queue, ac_iterations, ac_requeues, ac_fifo,
                   alldiffVars, hgVars, tttVars>>

\* one iteration of the for loop: a consistent value is assigned and
\* backtrack is invoked on the assignment, an inconsistent one is passed over
backtrack_value ==
    /\ pc = "loop"
    /\ Top(bt_stack).vals # <<>>
    /\ LET f == Top(bt_stack)
           value == Head(f.vals)
       IN  /\ bt_stack' = Append(Pop(bt_stack), Frame(f.var, Tail(f.vals), f.entry))
           /\ IF is_consistent(value, f.var, bt_assignment)
              THEN /\ bt_assignment' = (f.var :> value) @@ bt_assignment
                   /\ pc' = "call"
              ELSE UNCHANGED <<bt_assignment, pc>>
    /\ UNCHANGED <<cspVars, bt_order, bt_event>>
    /\ UNCHANGED <<ac_queue, ac_iterations, ac_requeues, ac_fifo,
                   alldiffVars, hgVars, tttVars>>

\* the for loop is over: count the failure and return None
backtrack_fail ==
    /\ pc = "loop"
    /\ Top(bt_stack).vals = <<>>
    /\ fail_counter' = fail_counter + 1
    /\ pc' = "exit_none"
    /\ bt_event' = [kind |-> "exit", entry |-> Top(bt_stack).entry]
    /\ bt_stack' = Pop(bt_stack)
    /\ UNCHANGED <<variables, domains, binary_constraints, backtrack_counter,
                   call, ret, before, prev, calls, bt_assignment, bt_order>>
    /\ UNCHANGED <<ac_queue, ac_iterations, ac_requeues, ac_fifo,
                   alldiffVars, hgVars, tttVars>>

\* the caller forgetting to remove the value it tried
del_assignment_kept(assignment, var) == assignment

\* del assignment[var]
del_assignment(assignment, var) ==
    [v \in (DOMAIN assignment) \ {var} |-> assignment[v]]

\* the invocation that made the call goes on: it returns a result that is
\* not None, and after None removes the value it tried and loops
backtrack_resume ==
    /\ pc \in {"exit_found", "exit_none"}
    /\ bt_stack # <<>>
    /\ IF pc = "exit_found"
       THEN /\ bt_stack' = Pop(bt_stack)
            /\ bt_event' = [kind |-> "exit", entry |-> Top(bt_stack).entry]
            /\ UNCHANGED <<pc, bt_assignment>>
       ELSE /\ bt_assignment' = del_assignment(bt_assignment, Top(bt_stack).var)
            /\ pc' = "loop"
            /\ UNCHANGED <<bt_stack, bt_event>>
    /\ UNCHANGED <<cspVars, bt_order>>
    /\ UNCHANGED <<ac_queue, ac_iterations, ac_requeues, ac_fifo,
                   alldiffVars, hgVars, tttVars>>

\* the outermost invocation has returned: so does backtracking_search
backtracking_search_return ==
    /\ pc \in {"exit_found", "exit_none"}
    /\ bt_stack = <<>>
    /\ ret' = IF pc = "exit_found" THEN Dict(bt_assignment) ELSE None
    /\ pc' = "done"
    /\ UNCHANGED <<variables, domains, binary_constraints, backtrack_counter,
                   fail_counter, call, before, prev, calls>>
    /\ UNCHANGED <<btVars, ac_queue, ac_iterations, ac_requeues, ac_fifo,
                   alldiffVars, hgVars, tttVars>>

BTNext ==
    \/ backtracking_search_begin
    \/ backtrack_enter
    \/ backtrack_value
    \/ backtrack_fail
    \/ backtrack_resume
    \/ backtracking_search_return

SpecBacktrackSteps == BTInit /\ [][BTNext]_vars

\* the first d declared variables
FirstVars(d) == {variables[i] : i \in 1..d}

\* each assigned variable holds a value of its domain, and assigned
\* variables joined by a declared edge hold different values
AssignmentSound(assignment) ==
    /\ \A v \in DOMAIN assignment : assignment[v] \in domains[v]
    /\ \A e \in Edges :
         (e[1] \in DOMAIN assignment /\ e[2] \in DOMAIN assignment)
            => assignment[e[1]] # assignment[e[2]]

\* C15: at every entry to and exit from backtrack, at recursion depth d the
\* assignment holds exactly the first d declared variables, each with a
\* value of its domain and different values across every declared edge; a
\* failed call returns with the assignment as it was on entry, and a failed
\* search ends with the empty assignment.
C15_StackInvariant ==
    /\ pc \in {"call", "exit_found", "exit_none"}
          => /\ DOMAIN bt_assignment = FirstVars(Len(bt_stack))
             /\ AssignmentSound(bt_assignment)
    /\ pc = "exit_none" => bt_assignment = bt_event.entry
    /\ (pc = "done" /\ ret = None) => bt_assignment = EmptyDict

\* C15 as it holds: the same at every entry and at every exit that returns
\* None; at an exit that returns a solution the assignment holds all the
\* variables, whatever the depth.
C15_StackInvariantFound ==
    /\ pc \in {"call", "exit_none"}
          => DOMAIN bt_assignment = FirstVars(Len(bt_stack))
    /\ pc = "exit_found"
          => DOMAIN bt_assignment = FirstVars(Len(variables))
    /\ pc \in {"call", "exit_found", "exit_none"}
          => AssignmentSound(bt_assignment)
    /\ pc = "exit_none" => bt_assignment = bt_event.entry
    /\ (pc = "done" /\ ret = None) => bt_assignment = EmptyDict

C15_Witness ==
    /\ pc = "exit_none"
    /\ Len(bt_stack) = 2
    /\ fail_counter > 1
    /\ Edges # {}

\* C16: every invocation of backtrack adds exactly 1 to backtrack_counter,
\* every invocation returning None adds exactly 1 to fail_counter, nothing
\* else changes them; after a search on a fresh instance, None comes with
\* backtrack_counter = fail_counter >= 1 and a solution with
\* backtrack_counter = fail_counter + (number of variables) + 1.
C16_CounterAccounting ==
    /\ [][ /\ backtrack_counter' =
                IF pc = "call" THEN backtrack_counter + 1 ELSE backtrack_counter
           /\ fail_counter' =
                IF pc' = "exit_none" /\ pc # "exit_none"
                THEN fail_counter + 1 ELSE fail_counter ]_vars
    /\ [](pc = "done"
            => /\ ret = None
                  => backtrack_counter = fail_counter /\ fail_counter >= 1
               /\ ret # None
                  => backtrack_counter = fail_counter + Len(variables) + 1)

C16_Witness ==
    /\ pc = "done" /\ ret # None
    /\ fail_counter > 0
    /\ Len(variables) = Len(VarNames)

(* ============================== alldiff ================================ *)
MaxList == 3
AlldiffNames == {"A", "B", "C", "D"}

\* a returned list
List(l) == [kind |-> "list", val |-> l]

\* alldiff with the inner range starting at i instead of i + 1
RECURSIVE alldiff_from_i(_, _)
alldiff_from_i(vs, i) ==
    IF i > Len(vs) - 1 THEN <<>>
    ELSE [k \in 1..(Len(vs) - i + 1) |-> <<vs[i], vs[i + k - 1]>>]
            \o alldiff_from_i(vs, i + 1)

\* the comprehension of alldiff from the outer index i on (i counted from 1):
\* for i in range(len - 1), for j in range(i + 1, len)
RECURSIVE alldiff_from(_, _)
alldiff_from(vs, i) ==
    IF i > Len(vs) - 1 THEN <<>>
    ELSE [k \in 1..(Len(vs) - i) |-> <<vs[i], vs[i + k]>>]
            \o alldiff_from(vs, i + 1)

alldiff(vs) == alldiff_from(vs, 1)

AlldiffInit ==
    /\ \E n \in 0..MaxList : \E vs \in [1..n -> AlldiffNames] :
            alldiff_variables = vs
    /\ alldiff_ret = None
    /\ CSPUnused /\ HGUnused /\ TTTUnused /\ StepUnused

alldiff_call ==
    /\ alldiff_ret = None
    /\ alldiff_ret' = List(alldiff(alldiff_variables))
    /\ UNCHANGED <<alldiff_variables, cspVars, hgVars, tttVars, stepVars>>

AlldiffNext == alldiff_call

SpecAlldiff == AlldiffInit /\ [][AlldiffNext]_vars

Distinct(vs) == \A i, j \in DOMAIN vs : i # j => vs[i] # vs[j]

\* C8: for a list of n pairwise-distinct variables alldiff returns exactly
\* n*(n-1)/2 edges, none pairs a variable with itself, and every unordered
\* pair of distinct variables of the list is an edge at exactly one position,
\* in one of its two orders.
C8_AlldiffPairs ==
    (alldiff_ret.kind = "list" /\ Distinct(alldiff_variables))
        => LET n == Len(alldiff_variables)
               edges == alldiff_ret.val
           IN  /\ Len(edges) = (n * (n - 1)) \div 2
               /\ \A k \in DOMAIN edges : edges[k][1] # edges[k][2]
               /\ \A a, b \in Range(alldiff_variables) :
                    a # b => Cardinality({k \in DOMAIN edges :
                                edges[k] \in {<<a, b>>, <<b, a>>}}) = 1

C8_Witness ==
    /\ alldiff_ret.kind = "list" /\ Distinct(alldiff_variables)
    /\ Len(alldiff_variables) = 3
    /\ Len(alldiff_ret.val) = 3

(* =========================== halving game ============================== *)
MaxN == 20

\* float('inf'): above every utility
inf == 2

hg_initial_state(N) == <<0, N>>

hg_to_move(state) == state[1]

hg_actions(state) == <<"--", "/2">>

hg_result(state, action) ==
    IF action = "--"
    THEN <<(hg_to_move(state) + 1) % 2, state[2] - 1>>
    ELSE <<(hg_to_move(state) + 1) % 2, state[2] \div 2>>

\* the terminal test stopping one number early (number <= 1)
hg_is_terminal_early(state) == state[2] <= 1

hg_is_terminal(state) == state[2] = 0

hg_utility(state, player) == IF hg_to_move(state) = player THEN 1 ELSE -1

\* max_value / min_value; player is the global read by utility
RECURSIVE hg_max_value(_, _), hg_min_value(_, _),
          hg_max_loop(_, _, _, _, _), hg_min_loop(_, _, _, _, _)

\* the max loop taking a later action on a tie (>= for >)
RECURSIVE hg_max_loop_ge(_, _, _, _, _)
hg_max_loop_ge(state, acts, v, move, player) ==
    IF acts = <<>> THEN [v |-> v, move |-> move]
    ELSE LET a == Head(acts)
             r == hg_min_value(hg_result(state, a), player)
         IN  IF r.v >= v
             THEN hg_max_loop_ge(state, Tail(acts), r.v, a, player)
             ELSE hg_max_loop_ge(state, Tail(acts), v, move, player)

hg_max_loop(state, acts, v, move, player) ==
    IF acts = <<>> THEN [v |-> v, move |-> move]
    ELSE LET a == Head(acts)
             r == hg_min_value(hg_result(state, a), player)
         IN  IF r.v > v
             THEN hg_max_loop(state, Tail(acts), r.v, a, player)
             ELSE hg_max_loop(state, Tail(acts), v, move, player)

hg_min_loop(state, acts, v, move, player) ==
    IF acts = <<>> THEN [v |-> v, move |-> move]
    ELSE LET a == Head(acts)
             r == hg_max_value(hg_result(state, a), player)
         IN  IF r.v < v
             THEN hg_min_loop(state, Tail(acts), r.v, a, player)
             ELSE hg_min_loop(state, Tail(acts), v, move, player)

hg_max_value(state, player) ==
    IF hg_is_terminal(state)
    THEN [v |-> hg_utility(state, player), move |-> "None"]
    ELSE hg_max_loop(state, hg_actions(state), -inf, "-inf", player)

hg_min_value(state, player) ==
    IF hg_is_terminal(state)
    THEN [v |-> hg_utility(state, player), move |-> "None"]
    ELSE hg_min_loop(state, hg_actions(state), inf, "inf", player)

\* minimax_search; its own player is a local, the global is the one passed
hg_minimax_search(state, player) == hg_max_value(state, player).move

HGInit ==
    /\ hg_N \in 1..MaxN
    /\ hg_state = hg_initial_state(hg_N)
    /\ hg_player = 0          \* not yet bound; assigned before it is first read
    /\ hg_trace = <<>>
    /\ CSPUnused /\ AlldiffUnused /\ TTTUnused /\ StepUnused

\* one turn of the driver's while loop
hg_turn ==
    /\ ~ hg_is_terminal(hg_state)
    /\ LET player == hg_to_move(hg_state)
           action == hg_minimax_search(hg_state, player)
       IN  /\ hg_player' = player
           /\ action # "None"
           /\ hg_trace' = Append(hg_trace, action)
           /\ hg_state' = hg_result(hg_state, action)
    /\ UNCHANGED <<hg_N, cspVars, alldiffVars, tttVars, stepVars>>

HGNext == hg_turn

SpecHalving == HGInit /\ [][HGNext]_vars

IsPrefix(s, t) == Len(s) <= Len(t) /\ SubSeq(t, 1, Len(s)) = s

\* the number after the actions of trace, from N
RECURSIVE NumberAfter(_, _)
NumberAfter(N, trace) ==
    IF trace = <<>> THEN N
    ELSE hg_result(<<0, NumberAfter(N, SubSeq(trace, 1, Len(trace) - 1))>>,
                   trace[Len(trace)])[2]

\* C10: with N = 5 the actions minimax self-play has played are at every
\* point the beginning of '--', '--', '/2', '--', the numbers passed are
\* 5, 4, 3, 1, 0, and the game ends after all four at number 0 with
\* Player 1 (index 0) to move and utility(state, 0) = 1.
C10_HalvingTrace ==
    hg_N = 5
        => /\ IsPrefix(hg_trace, <<"--", "--", "/2", "--">>)
           /\ hg_state[2] = <<5, 4, 3, 1, 0>>[Len(hg_trace) + 1]
           /\ hg_state[2] = NumberAfter(5, hg_trace)
           /\ hg_is_terminal(hg_state)
                => /\ hg_trace = <<"--", "--", "/2", "--">>
                   /\ hg_state = <<0, 0>>
                   /\ hg_utility(hg_state, 0) = 1

C10_Witness ==
    /\ hg_N = 5
    /\ hg_is_terminal(hg_state)
    /\ Len(hg_trace) = 4

\* C11 (as stated): with N = 5 minimax self-play is at a terminal state
\* after exactly 5 actions.
C11_FivePlies ==
    hg_N = 5 => (hg_is_terminal(hg_state) <=> Len(hg_trace) = 5)

\* C11 (amended): with N = 5 minimax self-play is at a terminal state after
\* exactly 4 actions: never before, and no action is played after.
C11_FourPlies ==
    hg_N = 5
        => /\ Len(hg_trace) <= 4
           /\ hg_is_terminal(hg_state) <=> Len(hg_trace) = 4

C11_Witness ==
    /\ hg_N = 5
    /\ hg_is_terminal(hg_state)
    /\ hg_trace # <<>>
    /\ hg_player = 1

(* ============================ tic-tac-toe ============================== *)
\* an empty cell (None)
ttt_None == -1

ttt_initial_state == <<0, [row \in 0..2 |-> [col \in 0..2 |-> ttt_None]]>>

ttt_to_move(state) == state[1]

\* the cells in the order of the two loops of actions
ttt_cells == [k \in 1..9 |-> <<(k - 1) \div 3, (k - 1) % 3>>]

ttt_actions(state) ==
    SelectSeq(ttt_cells, LAMBDA a : state[2][a[1]][a[2]] = ttt_None)

ttt_result(state, action) ==
    <<(ttt_to_move(state) + 1) % 2,
      [state[2] EXCEPT ![action[1]][action[2]] = ttt_to_move(state)]>>

ttt_is_winner(state, player) ==
    LET board == state[2] IN
    \/ \E row \in 0..2 : \A col \in 0..2 : board[row][col] = player
    \/ \E col \in 0..2 : \A row \in 0..2 : board[row][col] = player
    \/ \A i \in 0..2 : board[i][i] = player
    \/ \A i \in 0..2 : board[i][2 - i] = player

ttt_is_terminal(state) ==
    \/ ttt_is_winner(state, (ttt_to_move(state) + 1) % 2)
    \/ \A row \in 0..2 : \A col \in 0..2 : state[2][row][col] # ttt_None

ttt_utility(state, player) ==
    IF ttt_is_winner(state, player) THEN 1
    ELSE IF ttt_is_winner(state, (player + 1) % 2) THEN -1
    ELSE 0

Max(a, b) == IF a >= b THEN a ELSE b
Min(a, b) == IF a <= b THEN a ELSE b

\* no action: the None of a terminal state, the placeholders -inf and inf
NoAction == <<>>

RECURSIVE ttt_max_value(_, _), ttt_min_value(_, _),
          ttt_max_loop(_, _, _, _, _), ttt_min_loop(_, _, _, _, _),
          ttt_max_value_ab(_, _, _, _), ttt_min_value_ab(_, _, _, _),
          ttt_max_loop_ab(_, _, _, _, _, _, _), ttt_min_loop_ab(_, _, _, _, _, _, _)

\* the loop of max_value_ab with its cutoff tested against alpha (v >= alpha)
RECURSIVE ttt_max_loop_ab_alpha(_, _, _, _, _, _, _)
ttt_max_loop_ab_alpha(state, acts, v, move, alpha, beta, player) ==
    IF acts = <<>> THEN [v |-> v, move |-> move]
    ELSE LET a == Head(acts)
             r == ttt_min_value_ab(ttt_result(state, a), alpha, beta, player)
             better == r.v > v
             v1 == IF better THEN r.v ELSE v
             move1 == IF better THEN a ELSE move
             alpha1 == IF better THEN Max(alpha, v1) ELSE alpha
         IN  IF v1 >= alpha1 THEN [v |-> v1, move |-> move1]
             ELSE ttt_max_loop_ab_alpha(state, Tail(acts), v1, move1, alpha1, beta, player)

\* the loop of min_value_ab with its cutoff tested against beta (v <= beta)
RECURSIVE ttt_min_loop_ab_beta(_, _, _, _, _, _, _)
ttt_min_loop_ab_beta(state, acts, v, move, alpha, beta, player) ==
    IF acts = <<>> THEN [v |-> v, move |-> move]
    ELSE LET a == Head(acts)
             r == ttt_max_value_ab(ttt_result(state, a), alpha, beta, player)
             better == r.v < v
             v1 == IF better THEN r.v ELSE v
             move1 == IF better THEN a ELSE move
             beta1 == IF better THEN Min(beta, v1) ELSE beta
         IN  IF v1 <= beta1 THEN [v |-> v1, move |-> move1]
             ELSE ttt_min_loop_ab_beta(state, Tail(acts), v1, move1, alpha, beta1, player)

ttt_max_loop(state, acts, v, move, player) ==
    IF acts = <<>> THEN [v |-> v, move |-> move]
    ELSE LET a == Head(acts)
             r == ttt_min_value(ttt_result(state, a), player)
         IN  IF r.v > v
             THEN ttt_max_loop(state, Tail(acts), r.v, a, player)
             ELSE ttt_max_loop(state, Tail(acts), v, move, player)

ttt_min_loop(state, acts, v, move, player) ==
    IF acts = <<>> THEN [v |-> v, move |-> move]
    ELSE LET a == Head(acts)
             r == ttt_max_value(ttt_result(state, a), player)
         IN  IF r.v < v
             THEN ttt_min_loop(state, Tail(acts), r.v, a, player)
             ELSE ttt_min_loop(state, Tail(acts), v, move, player)

ttt_max_value(state, player) ==
    IF ttt_is_terminal(state)
    THEN [v |-> ttt_utility(state, player), move |-> NoAction]
    ELSE ttt_max_loop(state, ttt_actions(state), -inf, NoAction, player)

ttt_min_value(state, player) ==
    IF ttt_is_terminal(state)
    THEN [v |-> ttt_utility(state, player), move |-> NoAction]
    ELSE ttt_min_loop(state, ttt_actions(state), inf, NoAction, player)

ttt_minimax_search(state, player) == ttt_max_value(state, player).move

\* the loop of max_value_ab: v, move, alpha as the iterations so far left them
ttt_max_loop_ab(state, acts, v, move, alpha, beta, player) ==
    IF acts = <<>> THEN [v |-> v, move |-> move]
    ELSE LET a == Head(acts)
             r == ttt_min_value_ab(ttt_result(state, a), alpha, beta, player)
             better == r.v > v
             v1 == IF better THEN r.v ELSE v
             move1 == IF better THEN a ELSE move
             alpha1 == IF better THEN Max(alpha, v1) ELSE alpha
         IN  IF v1 >= beta THEN [v |-> v1, move |-> move1]
             ELSE ttt_max_loop_ab(state, Tail(acts), v1, move1, alpha1, beta, player)

\* the loop of min_value_ab
ttt_min_loop_ab(state, acts, v, move, alpha, beta, player) ==
    IF acts = <<>> THEN [v |-> v, move |-> move]
    ELSE LET a == Head(acts)
             r == ttt_max_value_ab(ttt_result(state, a), alpha, beta, player)
             better == r.v < v
             v1 == IF better THEN r.v ELSE v
             move1 == IF better THEN a ELSE move
             beta1 == IF better THEN Min(beta, v1) ELSE beta
         IN  IF v1 <= alpha THEN [v |-> v1, move |-> move1]
             ELSE ttt_min_loop_ab(state, Tail(acts), v1, move1, alpha, beta1, player)

ttt_max_value_ab(state, alpha, beta, player) ==
    IF ttt_is_terminal(state)
    THEN [v |-> ttt_utility(state, player), move |-> NoAction]
    ELSE ttt_max_loop_ab(state, ttt_actions(state), -inf, NoAction, alpha, beta, player)

ttt_min_value_ab(state, alpha, beta, player) ==
    IF ttt_is_terminal(state)
    THEN [v |-> ttt_utility(state, player), move |-> NoAction]
    ELSE ttt_min_loop_ab(state, ttt_actions(state), inf, NoAction, alpha, beta, player)

ttt_alpha_beta_search(state, player) ==
    ttt_max_value_ab(state, -inf, inf, player).move

TTTInit ==
    /\ ttt_state = ttt_initial_state
    /\ ttt_player = 0         \* not yet bound; assigned before it is first read
    /\ ttt_driven = TRUE
    /\ CSPUnused /\ AlldiffUnused /\ HGUnused /\ StepUnused

\* one turn of the driver's while loop: the move alpha_beta_search returns
ttt_turn ==
    /\ ~ ttt_is_terminal(ttt_state)
    /\ ttt_driven
    /\ LET player == ttt_to_move(ttt_state)
           action == ttt_alpha_beta_search(ttt_state, player)
       IN  /\ ttt_player' = player
           /\ action # NoAction
           /\ ttt_state' = ttt_result(ttt_state, action)
    /\ UNCHANGED <<ttt_driven, cspVars, alldiffVars, hgVars, stepVars>>

\* a turn of the game on any of its actions
ttt_move ==
    /\ ~ ttt_is_terminal(ttt_state)
    /\ \E a \in Range(ttt_actions(ttt_state)) :
           ttt_state' = ttt_result(ttt_state, a)
    /\ ttt_player' = ttt_to_move(ttt_state)
    /\ ttt_driven' = FALSE
    /\ UNCHANGED <<cspVars, alldiffVars, hgVars, stepVars>>

TTTNext == ttt_turn \/ ttt_move

SpecTicTacToe == TTTInit /\ [][TTTNext]_vars

\* C9: in every non-terminal state reachable from the empty board, with the
\* global player the player to move, max_value_ab(state, -inf, +inf) has the
\* value of max_value(state), and the action alpha_beta_search returns leads
\* to a state whose min_value is that value.
C9_AlphaBetaEqualsMinimax ==
    ~ ttt_is_terminal(ttt_state)
        => LET player == ttt_to_move(ttt_state)
               ab == ttt_max_value_ab(ttt_state, -inf, inf, player)
               mm == ttt_max_value(ttt_state, player)
           IN  /\ ab.v = mm.v
               /\ ab.move \in Range(ttt_actions(ttt_state))
               /\ ttt_min_value(ttt_result(ttt_state, ab.move), player).v = mm.v

C9_Witness ==
    /\ ~ ttt_is_terminal(ttt_state)
    /\ ~ ttt_driven
    /\ Len(ttt_actions(ttt_state)) = 5
    /\ ttt_max_value(ttt_state, ttt_to_move(ttt_state)).v = 1
    /\ ttt_max_value_ab(ttt_state, -inf, inf, ttt_to_move(ttt_state)).move
         # ttt_actions(ttt_state)[1]

\* C12: a game in which every move was the one alpha_beta_search returned
\* ends in a draw: at its terminal state neither player is a winner and the
\* utility is 0 for both; no such game stops before a terminal state.
C12_SelfPlayDraw ==
    ttt_driven
        => /\ ttt_is_terminal(ttt_state)
                => /\ ~ ttt_is_winner(ttt_state, 0)
                   /\ ~ ttt_is_winner(ttt_state, 1)
                   /\ ttt_utility(ttt_state, 0) = 0
                   /\ ttt_utility(ttt_state, 1) = 0
           /\ ~ ttt_is_terminal(ttt_state)
                => ttt_alpha_beta_search(ttt_state, ttt_to_move(ttt_state))
                     \in Range(ttt_actions(ttt_state))

C12_Witness ==
    /\ ttt_driven
    /\ ttt_is_terminal(ttt_state)
    /\ ttt_actions(ttt_state) = <<>>

====
